---- MODULE Spec2Model ----
(***************************************************************************)
(* strong_id: fixed-width base-32 identifiers with an optional prefix.      *)
(*                                                                         *)
(* Text is a sequence of one-character strings (ASCII only).  An unsigned   *)
(* integer of W bytes is held as its W base-256 digits, least significant   *)
(* digit first (TLC's integers are 32 bits wide and cannot hold u64/u128);  *)
(* a Uuid is held as its 16 bytes in storage order.                         *)
(***************************************************************************)
EXTENDS Integers, Sequences, FiniteSets, TLC

VARIABLES
    delimited,  \* cargo feature "delimited" of the build
    call,       \* the last operation called, with its arguments
    ret         \* what that operation returned

vars == <<delimited, call, ret>>

----------------------------------------------------------------------------
(* Bounds of the model *)

\* number of sample byte values a suffix value is built from
NBytes == 4
\* number of sample characters a decode input is built from
NChars == 12
\* decode inputs are tried at lengths within LenSlack of the required one
LenSlack == 1
\* number of sample prefixes
NPrefixes == 15

----------------------------------------------------------------------------
(* Option and Result *)

None == << >>
Some(x) == <<x>>

Ok(v) == [tag |-> "Ok", val |-> v]
Err(e) == [tag |-> "Err", err |-> e]
is_ok(r) == r.tag = "Ok"

\* enum Error
Base32Error(e) == <<"Base32Error", e>>
MissingPrefix(s) == <<"MissingPrefix", s>>
InvalidPrefix(e, f) == <<"InvalidPrefix", e, f>>
PrefixExpected == <<"PrefixExpected">>
NoPrefixExpected(s) == <<"NoPrefixExpected", s>>
InvalidLength(e, f) == <<"InvalidLength", e, f>>
PrefixTooLong(n) == <<"PrefixTooLong", n>>
IncorrectPrefixCharacter(c) == <<"IncorrectPrefixCharacter", c>>

----------------------------------------------------------------------------
(* Text *)

\* the printable ASCII characters, 0x20 .. 0x7e, in byte order (0x60 by name)
Ascii ==
    <<" ", "!", "\"", "#", "$", "%", "&", "'", "(", ")", "*", "+", ",", "-", ".", "/",
      "0", "1", "2", "3", "4", "5", "6", "7", "8", "9", ":", ";", "<", "=", ">", "?",
      "@", "A", "B", "C", "D", "E", "F", "G", "H", "I", "J", "K", "L", "M", "N", "O",
      "P", "Q", "R", "S", "T", "U", "V", "W", "X", "Y", "Z", "[", "\\", "]", "^", "_",
      "GRAVE", "a", "b", "c", "d", "e", "f", "g", "h", "i", "j", "k", "l", "m", "n", "o",
      "p", "q", "r", "s", "t", "u", "v", "w", "x", "y", "z", "{", "|", "}", "~">>

\* the byte of an ASCII character
as_byte(c) ==
    IF c = "\t" THEN 9
    ELSE IF c = "\n" THEN 10
    ELSE IF c = "\f" THEN 12
    ELSE IF c = "\r" THEN 13
    ELSE 31 + (CHOOSE i \in 1..Len(Ascii) : Ascii[i] = c)

is_ascii_lowercase(c) == as_byte(c) >= as_byte("a") /\ as_byte(c) <= as_byte("z")

Reverse(s) == [i \in 1..Len(s) |-> s[Len(s) + 1 - i]]

----------------------------------------------------------------------------
(* base32: the codec *)

Alphabet ==
    <<"0", "1", "2", "3", "4", "5", "6", "7", "8", "9", "a", "b", "c", "d", "e", "f",
      "g", "h", "j", "k", "m", "n", "p", "q", "r", "s", "t", "v", "w", "x", "y", "z">>

AlphabetSet == {Alphabet[i] : i \in 1..Len(Alphabet)}

\* inverse alphabet lookup: the 5-bit value of a character, -1 if it has none
lookup(c) ==
    IF c \in AlphabetSet THEN (CHOOSE i \in 1..Len(Alphabet) : Alphabet[i] = c) - 1 ELSE -1

TypeNames == {"u8", "u16", "u32", "u64", "u128", "usize", "uuid"}

\* size_of with usize as wide as u128
size_of_wide_usize(t) ==
    CASE t = "u8" -> 1
      [] t = "u16" -> 2
      [] t = "u32" -> 4
      [] t = "u64" -> 8
      [] t = "u128" -> 16
      [] t = "usize" -> 16
      [] t = "uuid" -> 16

\* core::mem::size_of::<T>(), usize on a 64-bit target
size_of(t) ==
    CASE t = "u8" -> 1
      [] t = "u16" -> 2
      [] t = "u32" -> 4
      [] t = "u64" -> 8
      [] t = "u128" -> 16
      [] t = "usize" -> 8
      [] t = "uuid" -> 16

\* encoded_len::<T>(): ceil(W * 8 / 5)
encoded_len(t) == (size_of(t) * 8 + 4) \div 5

\* base32::encode(bytes, out): the bytes as one big-endian number, written
\* most significant 5-bit group first into an output of outlen characters
base32_encode(bytes, outlen) ==
    LET k == outlen * 5 - Len(bytes) * 8
        bit(j) ==
            IF j <= k \/ j - k > Len(bytes) * 8 THEN 0
            ELSE (bytes[((j - k - 1) \div 8) + 1] \div 2^(7 - ((j - k - 1) % 8))) % 2
        digit(i) ==
            16 * bit(5*i - 4) + 8 * bit(5*i - 3) + 4 * bit(5*i - 2)
                + 2 * bit(5*i - 1) + bit(5*i)
    IN  [i \in 1..outlen |-> Alphabet[digit(i) + 1]]

\* base32::decode(input, out): Ok(the low W bytes) or a Base32Error
base32_decode(input, W) ==
    LET n == Len(input)
        k == n * 5 - W * 8
        bit(s) ==
            IF s < 1 \/ s > n * 5 THEN 0
            ELSE (lookup(input[((s - 1) \div 5) + 1]) \div 2^(4 - ((s - 1) % 5))) % 2
        byte(j) ==
            LET b(m) == bit(k + 8 * (j - 1) + m)
            IN  128 * b(1) + 64 * b(2) + 32 * b(3) + 16 * b(4)
                    + 8 * b(5) + 4 * b(6) + 2 * b(7) + b(8)
    IN  IF \E i \in 1..n : lookup(input[i]) = -1
            THEN Err("InvalidByte")
        ELSE IF n >= 1 /\ k >= 1 /\ k <= 4 /\ lookup(input[1]) >= 2^(5 - k)
            THEN Err("InvalidFirstByte")
        ELSE Ok([j \in 1..W |-> byte(j)])

----------------------------------------------------------------------------
(* trait Id *)

to_be_bytes(v) == Reverse(v)
from_be_bytes(b) == Reverse(b)

\* <uint as Id>::encode with to_le_bytes for to_be_bytes
uint_encode_le(t, v) == base32_encode(v, encoded_len(t))

\* <uint as Id>::encode with leading zero characters dropped
RECURSIVE trim_zeros(_)
trim_zeros(s) == IF Len(s) > 1 /\ Head(s) = "0" THEN trim_zeros(Tail(s)) ELSE s
uint_encode_minimal(t, v) == trim_zeros(base32_encode(to_be_bytes(v), encoded_len(t)))

\* impl_strong_uint!: encode
uint_encode(t, v) == base32_encode(to_be_bytes(v), encoded_len(t))

\* impl Id for Uuid: encode
uuid_encode(v) == base32_encode(v, 26)

Id_encode(t, v) == IF t = "uuid" THEN uuid_encode(v) ELSE uint_encode(t, v)

\* <uint as Id>::decode with from_le_bytes for from_be_bytes
uint_decode_le(t, val) ==
    IF Len(val) # encoded_len(t)
        THEN [ret |-> Err(InvalidLength(encoded_len(t), Len(val))), b32 |-> None]
    ELSE LET r == base32_decode(val, size_of(t))
         IN  [ret |-> IF is_ok(r) THEN Ok(r.val) ELSE Err(Base32Error(r.err)),
              b32 |-> Some(val)]

\* <uint as Id>::decode with the decoder's error dropped instead of propagated
uint_decode_unchecked(t, val) ==
    IF Len(val) # encoded_len(t)
        THEN [ret |-> Err(InvalidLength(encoded_len(t), Len(val))), b32 |-> None]
    ELSE LET r == base32_decode(val, size_of(t))
         IN  [ret |-> IF is_ok(r) THEN Ok(from_be_bytes(r.val))
                      ELSE Ok([j \in 1..size_of(t) |-> 0]),
              b32 |-> Some(val)]

\* <uint as Id>::decode rejecting only the inputs that are too short
uint_decode_short(t, val) ==
    IF Len(val) < encoded_len(t)
        THEN [ret |-> Err(InvalidLength(encoded_len(t), Len(val))), b32 |-> None]
    ELSE LET r == base32_decode(val, size_of(t))
         IN  [ret |-> IF is_ok(r) THEN Ok(from_be_bytes(r.val)) ELSE Err(Base32Error(r.err)),
              b32 |-> Some(val)]

\* impl_strong_uint!: decode; ret is the result, b32 the input given to base32::decode
uint_decode(t, val) ==
    IF Len(val) # encoded_len(t)
        THEN [ret |-> Err(InvalidLength(encoded_len(t), Len(val))), b32 |-> None]
    ELSE LET r == base32_decode(val, size_of(t))
         IN  [ret |-> IF is_ok(r) THEN Ok(from_be_bytes(r.val)) ELSE Err(Base32Error(r.err)),
              b32 |-> Some(val)]

\* impl Id for Uuid: decode
uuid_decode(val) ==
    IF Len(val) # 26
        THEN [ret |-> Err(InvalidLength(26, Len(val))), b32 |-> None]
    ELSE LET r == base32_decode(val, 16)
         IN  [ret |-> IF is_ok(r) THEN Ok(r.val) ELSE Err(Base32Error(r.err)),
              b32 |-> Some(val)]

Id_decode_trace(t, val) == IF t = "uuid" THEN uuid_decode(val) ELSE uint_decode(t, val)

Id_decode(t, val) == Id_decode_trace(t, val).ret

----------------------------------------------------------------------------
(* Inputs *)

Min(a, b) == IF a < b THEN a ELSE b

SampleBytes == <<0, 255, 1, 45, 128, 127, 31, 8>>
Bytes == {SampleBytes[i] : i \in 1..Min(NBytes, Len(SampleBytes))}

SampleChars == <<"0", "z", "7", "8", "1", "2", "3", "4", "f", "g", "l", "A", "_", " ", "u", "~">>
Chars == {SampleChars[i] : i \in 1..Min(NChars, Len(SampleChars))}

\* values of type t: one byte x at position p, every other byte f
ValuesAt(t, P) ==
    {[i \in 1..size_of(t) |-> IF i = p THEN x ELSE f] : f \in Bytes, x \in Bytes, p \in P}

\* the value of type t whose bytes are all b
all_bytes(t, b) == [i \in 1..size_of(t) |-> b]

\* the value of type t of a number n below 65536
number(t, n) ==
    LET digits == [i \in 1..size_of(t) |->
                      IF i = 1 THEN n % 256 ELSE IF i = 2 THEN n \div 256 ELSE 0]
    IN  IF t = "uuid" THEN Reverse(digits) ELSE digits

\* the values the tests and the documentation use
TestValues(t) == IF size_of(t) = 1 THEN {} ELSE {number(t, 301), number(t, 3203)}

Values(t) ==
    IF size_of(t) = 1 THEN {<<b>> : b \in 0..255}
    ELSE ValuesAt(t, 1..size_of(t)) \cup TestValues(t)

\* fewer values: the odd byte is the first or the last one
EdgeValues(t) == ValuesAt(t, {1, size_of(t)}) \cup TestValues(t)

\* lengths at which decode inputs for type t are tried
Lens(t) ==
    {0, 10} \cup {n \in 0..(encoded_len(t) + LenSlack) : n >= encoded_len(t) - LenSlack}

\* texts of length n: one character x at position p, every other character f
TextsOfLen(n) ==
    IF n = 0 THEN {<< >>}
    ELSE {[i \in 1..n |-> IF i = p THEN x ELSE f] : f \in {"0", "z"}, x \in Chars, p \in 1..n}

Texts(t) == UNION {TextsOfLen(n) : n \in Lens(t)}

----------------------------------------------------------------------------
(* The codec called directly: Id::encode and Id::decode *)

InitCodec ==
    /\ delimited = FALSE
    /\ call = [op |-> "none"]
    /\ ret = None

\* v.encode()
Encode ==
    /\ call.op = "none"
    /\ \E t \in TypeNames : \E v \in Values(t) :
        /\ call' = [op |-> "encode", t |-> t, v |-> v]
        /\ ret' = Id_encode(t, v)
        /\ UNCHANGED delimited

\* T::decode(text) of an arbitrary text
Decode ==
    /\ call.op = "none"
    /\ \E t \in TypeNames : \E text \in Texts(t) :
        /\ call' = [op |-> "decode", t |-> t, text |-> text, of |-> None]
        /\ ret' = Id_decode_trace(t, text).ret
        /\ UNCHANGED delimited

\* T::decode(v.encode())
DecodeEncoded ==
    /\ call.op = "encode"
    /\ call' = [op |-> "decode", t |-> call.t, text |-> ret, of |-> Some(call.v)]
    /\ ret' = Id_decode_trace(call.t, ret).ret
    /\ UNCHANGED delimited

\* a second value of the same type encoded next to the first
EncodeNext ==
    /\ call.op = "encode"
    /\ call.v \in EdgeValues(call.t)
    /\ \E v \in EdgeValues(call.t) :
        /\ call' = [op |-> "encode2", t |-> call.t, v1 |-> call.v, s1 |-> ret, v |-> v]
        /\ ret' = Id_encode(call.t, v)
    /\ UNCHANGED delimited

NextCodec == Encode \/ Decode \/ DecodeEncoded \/ EncodeNext

SpecCodec == InitCodec /\ [][NextCodec]_vars

----------------------------------------------------------------------------
(* Prefixes *)

\* a byte map_prefix and assert_prefix_valid refuse
bad_prefix_byte(b) == ~(delimited /\ b = "_") /\ ~is_ascii_lowercase(b)

\* map_prefix with the underscore accepted whatever the build's features
map_prefix_any_underscore(prefix) ==
    IF Len(prefix) >= 64 THEN Err(PrefixTooLong(Len(prefix)))
    ELSE IF \E i \in 1..Len(prefix) : prefix[i] # "_" /\ ~is_ascii_lowercase(prefix[i])
        THEN LET i == CHOOSE i \in 1..Len(prefix) :
                          /\ prefix[i] # "_" /\ ~is_ascii_lowercase(prefix[i])
                          /\ \A j \in 1..(i - 1) : prefix[j] = "_" \/ is_ascii_lowercase(prefix[j])
             IN  Err(IncorrectPrefixCharacter(prefix[i]))
    ELSE IF prefix = << >> THEN Err(PrefixExpected)
    ELSE Ok(prefix)

\* map_prefix letting a prefix of 64 bytes pass
map_prefix_off_by_one(prefix) ==
    IF Len(prefix) > 64 THEN Err(PrefixTooLong(Len(prefix)))
    ELSE IF \E i \in 1..Len(prefix) : bad_prefix_byte(prefix[i])
        THEN LET i == CHOOSE i \in 1..Len(prefix) :
                          /\ bad_prefix_byte(prefix[i])
                          /\ \A j \in 1..(i - 1) : ~bad_prefix_byte(prefix[j])
             IN  Err(IncorrectPrefixCharacter(prefix[i]))
    ELSE IF prefix = << >> THEN Err(PrefixExpected)
    ELSE Ok(prefix)

\* fn map_prefix
map_prefix(prefix) ==
    IF Len(prefix) >= 64 THEN Err(PrefixTooLong(Len(prefix)))
    ELSE IF \E i \in 1..Len(prefix) : bad_prefix_byte(prefix[i])
        THEN LET i == CHOOSE i \in 1..Len(prefix) :
                          /\ bad_prefix_byte(prefix[i])
                          /\ \A j \in 1..(i - 1) : ~bad_prefix_byte(prefix[j])
             IN  Err(IncorrectPrefixCharacter(prefix[i]))
    ELSE IF prefix = << >> THEN Err(PrefixExpected)
    ELSE Ok(prefix)

\* fn assert_prefix_valid: TRUE when neither assertion fails
assert_prefix_valid(prefix) ==
    Len(prefix) < 64 /\ \A i \in 1..Len(prefix) : ~bad_prefix_byte(prefix[i])

----------------------------------------------------------------------------
(* str *)

has_char(s, c) == \E i \in 1..Len(s) : s[i] = c

SubSeqFrom(s, i) == SubSeq(s, i, Len(s))

\* str::split_once(c): None, or Some(<<before the first c, after it>>)
split_once(s, c) ==
    IF ~has_char(s, c) THEN None
    ELSE LET i == CHOOSE i \in 1..Len(s) : s[i] = c /\ \A j \in 1..(i - 1) : s[j] # c
         IN  Some(<<SubSeq(s, 1, i - 1), SubSeqFrom(s, i + 1)>>)

\* str::rsplit_once(c): None, or Some(<<before the last c, after it>>)
rsplit_once(s, c) ==
    IF ~has_char(s, c) THEN None
    ELSE LET i == CHOOSE i \in 1..Len(s) : s[i] = c /\ \A j \in (i + 1)..Len(s) : s[j] # c
         IN  Some(<<SubSeq(s, 1, i - 1), SubSeqFrom(s, i + 1)>>)

\* char::is_whitespace, for the ASCII characters a TLA+ string can hold
\* (U+000B and the non-ASCII White_Space characters are left out)
is_whitespace(c) == c \in {" ", "\t", "\n", "\f", "\r"}

\* str::trim
RECURSIVE trim_start(_)
trim_start(s) == IF s # << >> /\ is_whitespace(Head(s)) THEN trim_start(Tail(s)) ELSE s
trim(s) == Reverse(trim_start(Reverse(trim_start(s))))

----------------------------------------------------------------------------
(* DynamicStrongId<T>: [prefix: Option<Prefix>, suffix: T] *)

\* new building an identifier without prefix from an empty prefix
DynamicStrongId_new_empty_is_plain(prefix, value) ==
    LET p == map_prefix(prefix)
    IN  IF prefix = << >> THEN Ok([prefix |-> None, suffix |-> value])
        ELSE IF is_ok(p) THEN Ok([prefix |-> Some(p.val), suffix |-> value]) ELSE p

\* DynamicStrongId::new
DynamicStrongId_new(prefix, value) ==
    LET p == map_prefix(prefix)
    IN  IF is_ok(p) THEN Ok([prefix |-> Some(p.val), suffix |-> value]) ELSE p

\* uuid::Uuid::from_u128: the sixteen bytes of the number, most significant first
Uuid_from_u128(v) == to_be_bytes(v)

\* DynamicStrongId::<Uuid>::from_u128
DynamicStrongId_from_u128(prefix, v) ==
    LET p == map_prefix(prefix)
    IN  IF is_ok(p) THEN Ok([prefix |-> Some(p.val), suffix |-> Uuid_from_u128(v)]) ELSE p

\* DynamicStrongId::<Uuid>::from_u128_plain
DynamicStrongId_from_u128_plain(v) == [prefix |-> None, suffix |-> Uuid_from_u128(v)]

\* DynamicStrongId::new_plain
DynamicStrongId_new_plain(value) == [prefix |-> None, suffix |-> value]

\* Display with the separator left out
DynamicStrongId_fmt_no_separator(t, id) ==
    IF id.prefix # None THEN id.prefix[1] \o Id_encode(t, id.suffix)
    ELSE Id_encode(t, id.suffix)

\* impl Display for DynamicStrongId
DynamicStrongId_fmt(t, id) ==
    IF id.prefix # None THEN id.prefix[1] \o <<"_">> \o Id_encode(t, id.suffix)
    ELSE Id_encode(t, id.suffix)

\* from_str splitting at the first underscore
DynamicStrongId_from_str_first(t, value) ==
    LET split == split_once(value, "_")
    IN  IF split # None /\ trim(split[1][1]) = << >>
            THEN Err(MissingPrefix(split[1][1]))
        ELSE IF split # None
            THEN LET p == map_prefix(split[1][1])
                     d == Id_decode(t, split[1][2])
                 IN  IF ~is_ok(p) THEN p
                     ELSE IF ~is_ok(d) THEN d
                     ELSE Ok([prefix |-> Some(p.val), suffix |-> d.val])
        ELSE LET d == Id_decode(t, value)
             IN  IF ~is_ok(d) THEN d ELSE Ok([prefix |-> None, suffix |-> d.val])

\* from_str testing the left part for emptiness without trimming it
DynamicStrongId_from_str_no_trim(t, value) ==
    LET split == rsplit_once(value, "_")
    IN  IF split # None /\ split[1][1] = << >>
            THEN Err(MissingPrefix(split[1][1]))
        ELSE IF split # None
            THEN LET p == map_prefix(split[1][1])
                     d == Id_decode(t, split[1][2])
                 IN  IF ~is_ok(p) THEN p
                     ELSE IF ~is_ok(d) THEN d
                     ELSE Ok([prefix |-> Some(p.val), suffix |-> d.val])
        ELSE LET d == Id_decode(t, value)
             IN  IF ~is_ok(d) THEN d ELSE Ok([prefix |-> None, suffix |-> d.val])

\* from_str taking the left part as the prefix without map_prefix
DynamicStrongId_from_str_unvalidated(t, value) ==
    LET split == rsplit_once(value, "_")
    IN  IF split # None /\ trim(split[1][1]) = << >>
            THEN Err(MissingPrefix(split[1][1]))
        ELSE IF split # None
            THEN LET d == Id_decode(t, split[1][2])
                 IN  IF ~is_ok(d) THEN d
                     ELSE Ok([prefix |-> Some(split[1][1]), suffix |-> d.val])
        ELSE LET d == Id_decode(t, value)
             IN  IF ~is_ok(d) THEN d ELSE Ok([prefix |-> None, suffix |-> d.val])

\* impl FromStr for DynamicStrongId
DynamicStrongId_from_str(t, value) ==
    LET split == rsplit_once(value, "_")
    IN  IF split # None /\ trim(split[1][1]) = << >>
            THEN Err(MissingPrefix(split[1][1]))
        ELSE IF split # None
            THEN LET p == map_prefix(split[1][1])
                     d == Id_decode(t, split[1][2])
                 IN  IF ~is_ok(p) THEN p
                     ELSE IF ~is_ok(d) THEN d
                     ELSE Ok([prefix |-> Some(p.val), suffix |-> d.val])
        ELSE LET d == Id_decode(t, value)
             IN  IF ~is_ok(d) THEN d ELSE Ok([prefix |-> None, suffix |-> d.val])

----------------------------------------------------------------------------
(* Generated types.  A declaration strong_id!(struct X(T => "literal")) or   *)
(* strong_id!(struct X(T)) is [t |-> T, literal |-> Some("literal") or None]; *)
(* a value of the type is [suffix: T].                                       *)

\* from_input: the prefix attribute, an empty literal read as no prefix
from_input(literal) ==
    IF literal # None /\ literal[1] # << >> THEN literal ELSE None

\* derive(StrongId) compiles: assert_prefix_valid does not panic
compiles(decl) ==
    from_input(decl.literal) # None => assert_prefix_valid(from_input(decl.literal)[1])

\* the derived StrongId::prefix
StrongId_prefix(decl) == from_input(decl.literal)

\* From<T> for the generated type
StrongId_from(value) == [suffix |-> value]

\* _internal_impl_common: Display
StrongId_fmt(decl, id) ==
    IF StrongId_prefix(decl) # None
        THEN StrongId_prefix(decl)[1] \o <<"_">> \o Id_encode(decl.t, id.suffix)
    ELSE Id_encode(decl.t, id.suffix)

\* from_str decoding an input without underscore although a prefix is required
StrongId_from_str_lenient(decl, value) ==
    LET split == rsplit_once(value, "_")
        prefix == decl.literal
        decoded(text) ==
            LET d == Id_decode(decl.t, text)
            IN  IF ~is_ok(d) THEN d ELSE Ok([suffix |-> d.val])
    IN  IF prefix # None
            THEN IF split = None THEN decoded(value)
                 ELSE IF split[1][1] = << >> THEN decoded(split[1][2])
                 ELSE IF split[1][1] # prefix[1]
                     THEN Err(InvalidPrefix(prefix[1], split[1][1]))
                 ELSE decoded(split[1][2])
        ELSE IF split # None THEN Err(NoPrefixExpected(split[1][1]))
        ELSE decoded(value)

\* from_str decoding the suffix before it compares the prefix
StrongId_from_str_decode_first(decl, value) ==
    LET split == rsplit_once(value, "_")
        prefix == decl.literal
        decoded(text) ==
            LET d == Id_decode(decl.t, text)
            IN  IF ~is_ok(d) THEN d ELSE Ok([suffix |-> d.val])
    IN  IF prefix # None
            THEN IF split = None THEN Err(MissingPrefix(prefix[1]))
                 ELSE IF split[1][1] = << >> THEN Err(MissingPrefix(prefix[1]))
                 ELSE IF ~is_ok(decoded(split[1][2])) THEN decoded(split[1][2])
                 ELSE IF split[1][1] # prefix[1]
                     THEN Err(InvalidPrefix(prefix[1], split[1][1]))
                 ELSE decoded(split[1][2])
        ELSE IF split # None THEN Err(NoPrefixExpected(split[1][1]))
        ELSE decoded(value)

\* from_str dropping the left part of an input when no prefix is configured
StrongId_from_str_drop_prefix(decl, value) ==
    LET split == rsplit_once(value, "_")
        prefix == decl.literal
        decoded(text) ==
            LET d == Id_decode(decl.t, text)
            IN  IF ~is_ok(d) THEN d ELSE Ok([suffix |-> d.val])
    IN  IF prefix # None
            THEN IF split = None THEN Err(MissingPrefix(prefix[1]))
                 ELSE IF split[1][1] = << >> THEN Err(MissingPrefix(prefix[1]))
                 ELSE IF split[1][1] # prefix[1]
                     THEN Err(InvalidPrefix(prefix[1], split[1][1]))
                 ELSE decoded(split[1][2])
        ELSE IF split # None THEN decoded(split[1][2])
        ELSE decoded(value)

\* _internal_impl_from_str: from_str
StrongId_from_str(decl, value) ==
    LET split == rsplit_once(value, "_")
        prefix == decl.literal
        decoded(text) ==
            LET d == Id_decode(decl.t, text)
            IN  IF ~is_ok(d) THEN d ELSE Ok([suffix |-> d.val])
    IN  IF prefix # None
            THEN IF split = None THEN Err(MissingPrefix(prefix[1]))
                 ELSE IF split[1][1] = << >> THEN Err(MissingPrefix(prefix[1]))
                 ELSE IF split[1][1] # prefix[1]
                     THEN Err(InvalidPrefix(prefix[1], split[1][1]))
                 ELSE decoded(split[1][2])
        ELSE IF split # None THEN Err(NoPrefixExpected(split[1][1]))
        ELSE decoded(value)

----------------------------------------------------------------------------
(* Identifiers: construction, formatting and parsing *)

repeat(c, n) == [i \in 1..n |-> c]

SamplePrefixes ==
    << <<"d", "y", "n">>,
       <<"p", "r", "e", "f", "i", "x">>,
       << >>,
       <<"m", "u", "l", "t", "i", "_", "p", "a", "r", "t">>,
       <<" ">>,
       <<"C", "a", "s", "e">>,
       <<"c", "a", "s", "e", "0">>,
       <<"_">>,
       repeat("a", 63),
       repeat("a", 64),
       <<"a", "_">>,
       <<" ", "\t">>,
       <<"0", "0", "n", "u", "m", "e", "r", "i", "c">>,
       <<"_", "a">>,
       repeat("A", 64) >>

Prefixes == {SamplePrefixes[i] : i \in 1..Min(NPrefixes, Len(SamplePrefixes))}

\* the suffix texts a parse is tried on: encoded values of the type and of the
\* other types, and texts of the required length and of other lengths with one
\* odd character at either end
ParseSuffixes(t) ==
    {Id_encode(t, v) : v \in {all_bytes(t, 0), all_bytes(t, 255)} \cup TestValues(t)}
        \cup {Id_encode(u, number(u, 301)) : u \in {"u16", "u32", "usize", "uuid"}}
        \cup {[i \in 1..encoded_len(t) |-> IF i = p THEN x ELSE "0"] :
                 x \in Chars, p \in {1, encoded_len(t)}}
        \cup {repeat(f, n) : f \in {"0", "z"}, n \in Lens(t)}

ParseTexts(t) ==
    ParseSuffixes(t) \cup {left \o <<"_">> \o s : left \in Prefixes, s \in ParseSuffixes(t)}

\* the suffix types identifiers are tried with (u64 and u128 are as wide as
\* usize and uuid)
IdTypes == {"u8", "u16", "u32", "usize", "uuid"}

\* the declarations that compile in this build
Decls ==
    {d \in [t : IdTypes, literal : {None} \cup {Some(p) : p \in Prefixes}] : compiles(d)}

InitId ==
    /\ delimited \in BOOLEAN
    /\ call = [op |-> "none"]
    /\ ret = None

\* DynamicStrongId::<T>::new(prefix, v)
DynNew ==
    /\ call.op = "none"
    /\ \E t \in IdTypes : \E prefix \in Prefixes : \E v \in EdgeValues(t) :
        /\ call' = [op |-> "new", t |-> t, prefix |-> prefix, v |-> v]
        /\ ret' = DynamicStrongId_new(prefix, v)
    /\ UNCHANGED delimited

\* DynamicStrongId::<T>::new_plain(v)
DynNewPlain ==
    /\ call.op = "none"
    /\ \E t \in IdTypes : \E v \in EdgeValues(t) :
        /\ call' = [op |-> "new_plain", t |-> t, v |-> v]
        /\ ret' = Ok(DynamicStrongId_new_plain(v))
    /\ UNCHANGED delimited

\* DynamicStrongId::<Uuid>::from_u128(prefix, v)
DynFromU128 ==
    /\ call.op = "none"
    /\ \E prefix \in Prefixes : \E v \in EdgeValues("u128") :
        /\ call' = [op |-> "from_u128", t |-> "uuid", prefix |-> prefix, v |-> v]
        /\ ret' = DynamicStrongId_from_u128(prefix, v)
    /\ UNCHANGED delimited

\* DynamicStrongId::<Uuid>::from_u128_plain(v)
DynFromU128Plain ==
    /\ call.op = "none"
    /\ \E v \in EdgeValues("u128") :
        /\ call' = [op |-> "from_u128_plain", t |-> "uuid", v |-> v]
        /\ ret' = Ok(DynamicStrongId_from_u128_plain(v))
    /\ UNCHANGED delimited

\* id.to_string() of a dynamic identifier that was constructed or parsed
DynFormat ==
    /\ call.op \in {"new", "new_plain", "from_u128", "from_u128_plain", "from_str"}
    /\ is_ok(ret)
    /\ call' = [op |-> "fmt", t |-> call.t, id |-> ret.val,
                 from |-> IF call.op = "from_str" THEN Some(call.text) ELSE None]
    /\ ret' = DynamicStrongId_fmt(call.t, ret.val)
    /\ UNCHANGED delimited

\* text.parse::<DynamicStrongId<T>>() of an arbitrary text
DynParse ==
    /\ call.op = "none"
    /\ \E t \in IdTypes : \E text \in ParseTexts(t) :
        /\ call' = [op |-> "from_str", t |-> t, text |-> text, of |-> None]
        /\ ret' = DynamicStrongId_from_str(t, text)
    /\ UNCHANGED delimited

\* id.to_string().parse::<DynamicStrongId<T>>()
DynParseFormatted ==
    /\ call.op = "fmt"
    /\ call' = [op |-> "from_str", t |-> call.t, text |-> ret, of |-> Some(call.id)]
    /\ ret' = DynamicStrongId_from_str(call.t, ret)
    /\ UNCHANGED delimited

\* X::from(v) for a generated type X
GenFrom ==
    /\ call.op = "none"
    /\ \E decl \in Decls : \E v \in EdgeValues(decl.t) :
        /\ call' = [op |-> "gen_from", decl |-> decl, v |-> v]
        /\ ret' = Ok(StrongId_from(v))
    /\ UNCHANGED delimited

\* id.to_string() of a generated identifier that was constructed or parsed
GenFormat ==
    /\ call.op \in {"gen_from", "gen_from_str"}
    /\ is_ok(ret)
    /\ call' = [op |-> "gen_fmt", decl |-> call.decl, id |-> ret.val,
                 from |-> IF call.op = "gen_from_str" THEN Some(call.text) ELSE None]
    /\ ret' = StrongId_fmt(call.decl, ret.val)
    /\ UNCHANGED delimited

\* text.parse::<X>() of an arbitrary text
GenParse ==
    /\ call.op = "none"
    /\ \E decl \in Decls : \E text \in ParseTexts(decl.t) :
        /\ call' = [op |-> "gen_from_str", decl |-> decl, text |-> text, of |-> None]
        /\ ret' = StrongId_from_str(decl, text)
    /\ UNCHANGED delimited

\* id.to_string().parse::<X>()
GenParseFormatted ==
    /\ call.op = "gen_fmt"
    /\ call' = [op |-> "gen_from_str", decl |-> call.decl, text |-> ret, of |-> Some(call.id)]
    /\ ret' = StrongId_from_str(call.decl, ret)
    /\ UNCHANGED delimited

NextId ==
    \/ DynNew \/ DynNewPlain \/ DynFromU128 \/ DynFromU128Plain \/ DynFormat \/ DynParse \/ DynParseFormatted
    \/ GenFrom \/ GenFormat \/ GenParse \/ GenParseFormatted

SpecId == InitId /\ [][NextId]_vars

----------------------------------------------------------------------------
(* Properties of the codec *)

\* v1 < v2 for two values of type t (Uuid orders by its bytes)
value_lt(t, a, b) ==
    IF t = "uuid"
        THEN \E i \in 1..Len(a) : a[i] < b[i] /\ \A j \in 1..(i - 1) : a[j] = b[j]
    ELSE \E i \in 1..Len(a) : a[i] < b[i] /\ \A j \in (i + 1)..Len(a) : a[j] = b[j]

\* a < b for two strings, compared byte by byte
str_lt(a, b) ==
    \E i \in 1..(Len(b)) :
        /\ \A j \in 1..(i - 1) : j <= Len(a) /\ a[j] = b[j]
        /\ (i > Len(a) \/ as_byte(a[i]) < as_byte(b[i]))

\* the value is below 256: every byte but the least significant one is zero
below_256(t, v) ==
    IF t = "uuid" THEN \A i \in 1..(Len(v) - 1) : v[i] = 0
    ELSE \A i \in 2..Len(v) : v[i] = 0

\* the length the documentation gives for a width of W bytes
ExpectedLen(W) ==
    CASE W = 1 -> 2
      [] W = 2 -> 4
      [] W = 4 -> 7
      [] W = 8 -> 13
      [] W = 16 -> 26

\* the largest first character a decode input of type t may have
FirstCharLimit(t) ==
    CASE t \in {"u8", "u128", "uuid"} -> "7"
      [] t = "u16" -> "1"
      [] t = "u32" -> "3"
      [] t \in {"u64", "usize"} -> "f"

in_alphabet(text) == \A i \in 1..Len(text) : text[i] \in AlphabetSet

\* The codec reproduces the strings the tests of dynamic.rs and lib.rs expect.
TestVectors ==
    /\ Id_encode("u32", number("u32", 301)) = <<"0", "0", "0", "0", "0", "9", "d">>
    /\ Id_encode("u16", number("u16", 301)) = <<"0", "0", "9", "d">>
    /\ Id_encode("u16", number("u16", 3203)) = <<"0", "3", "4", "3">>
    /\ Id_encode("u16", all_bytes("u16", 255)) = <<"1", "z", "z", "z">>
    /\ Id_encode("u32", all_bytes("u32", 255)) = <<"3", "z", "z", "z", "z", "z", "z">>
    /\ Id_encode("usize", all_bytes("usize", 255)) = [i \in 1..13 |-> IF i = 1 THEN "f" ELSE "z"]
    /\ Id_decode("u8", <<"8", "f">>) = Err(Base32Error("InvalidFirstByte"))
    /\ Id_decode("u8", <<"0", "l">>) = Err(Base32Error("InvalidByte"))
    /\ Id_decode("u16", <<"z", "0", "0", "0">>) = Err(Base32Error("InvalidFirstByte"))
    /\ Id_decode("u16", <<"0", "0", "9", "d">>) = Ok(number("u16", 301))

\* C1: decoding what encode produced gives back the value that was encoded,
\* for every type and value.
C1_RoundTrip ==
    (call.op = "decode" /\ call.of # None) => ret = Ok(call.of[1])

C1_Witness ==
    /\ call.op = "decode" /\ call.t = "u32" /\ call.of = Some(number("u32", 301))
    /\ call.text = <<"0", "0", "0", "0", "0", "9", "d">> /\ ret = Ok(<<45, 1, 0, 0>>)

\* C2: encode always yields ceil(W*8/5) characters (2, 4, 7, 13, 26 for 1, 2,
\* 4, 8, 16 bytes); a value below 256 is padded on the left with "0".
C2_FixedLength ==
    call.op = "encode" =>
        /\ Len(ret) = ExpectedLen(size_of(call.t))
        /\ Len(ret) = encoded_len(call.t)
        /\ 5 * Len(ret) >= 8 * size_of(call.t)
        /\ 5 * (Len(ret) - 1) < 8 * size_of(call.t)
        /\ below_256(call.t, call.v) => \A i \in 1..(Len(ret) - 2) : ret[i] = "0"

C2_Witness ==
    /\ call.op = "encode" /\ call.t = "u128"
    /\ below_256(call.t, call.v) /\ call.v[1] = 1
    /\ Len(ret) = 26 /\ ret[25] = "0" /\ ret[26] = "1"

\* C3: of two values of one type, the smaller encodes to the string that is
\* smaller under byte-wise comparison.
C3_OrderPreserved ==
    (call.op = "encode2" /\ value_lt(call.t, call.v1, call.v)) => str_lt(call.s1, ret)

C3_Witness ==
    /\ call.op = "encode2" /\ call.t = "u64"
    /\ call.v1 = <<255, 0, 0, 0, 0, 0, 0, 0>> /\ call.v = <<0, 1, 1, 1, 1, 1, 1, 1>>
    /\ str_lt(call.s1, ret)

\* C4: a decode input of the right length, made of alphabet characters only,
\* whose first character has a 5-bit value of 2^(5-k) or more (k the overhang
\* bits; that is, a first character above FirstCharLimit) is refused with
\* InvalidFirstByte.
C4_OverflowRejected ==
    (call.op = "decode" /\ Len(call.text) = ExpectedLen(size_of(call.t))
        /\ in_alphabet(call.text)) =>
        LET k == ExpectedLen(size_of(call.t)) * 5 - size_of(call.t) * 8
            over == lookup(call.text[1]) >= 2^(5 - k)
        IN  /\ over <=> as_byte(call.text[1]) > as_byte(FirstCharLimit(call.t))
            /\ over => ret = Err(Base32Error("InvalidFirstByte"))

C4_Witness ==
    /\ call.op = "decode" /\ call.t = "u32" /\ call.text = <<"4", "0", "0", "0", "0", "0", "0">>
    /\ ret = Err(Base32Error("InvalidFirstByte"))

C6_LengthFirst ==
    call.op = "decode" =>
        LET b32in == Id_decode_trace(call.t, call.text).b32
        IN  /\ Len(call.text) # ExpectedLen(size_of(call.t)) =>
                   /\ ret = Err(InvalidLength(ExpectedLen(size_of(call.t)), Len(call.text)))
                   /\ b32in = None
            /\ (call.t = "u16" /\ Len(call.text) = 10) =>
                   ret = Err(<<"InvalidLength", 4, 10>>)
            /\ b32in # None =>
                   b32in = Some(call.text) /\ Len(call.text) = ExpectedLen(size_of(call.t))

C6_Witness ==
    /\ call.op = "decode" /\ call.t = "u16" /\ Len(call.text) = 10
    /\ ~in_alphabet(call.text) /\ ret = Err(InvalidLength(4, 10))

----------------------------------------------------------------------------
(* Properties of identifiers *)

\* the text left of the last underscore of a text that has one
left_of_last(text) ==
    LET i == CHOOSE i \in 1..Len(text) :
                 text[i] = "_" /\ \A j \in (i + 1)..Len(text) : text[j] # "_"
    IN  SubSeq(text, 1, i - 1)

C8_ParseFormat ==
    (call.op \in {"from_str", "gen_from_str"} /\ call.of # None) => ret = Ok(call.of[1])

\* C8 for all but the generated types declared with an empty prefix literal
C8_ParseFormatDeclared ==
    (call.op \in {"from_str", "gen_from_str"} /\ call.of # None) =>
        \/ ret = Ok(call.of[1])
        \/ call.op = "gen_from_str" /\ call.decl.literal = Some(<< >>)

\* C9: the dynamic parse splits at the last underscore only: what precedes it
\* is the prefix, what follows it is decoded as the suffix ("multi_part_0000"
\* has prefix "multi_part" in a delimited build); a text with no underscore is
\* decoded whole, with prefix None.
C9_LastUnderscore ==
    call.op = "from_str" =>
        /\ (is_ok(ret) /\ ret.val.prefix # None) =>
               LET p == ret.val.prefix[1]
                   rest == SubSeqFrom(call.text, Len(p) + 2)
               IN  /\ Len(p) + 1 <= Len(call.text)
                   /\ SubSeq(call.text, 1, Len(p)) = p
                   /\ call.text[Len(p) + 1] = "_"
                   /\ ~has_char(rest, "_")
                   /\ Id_decode(call.t, rest) = Ok(ret.val.suffix)
        /\ (is_ok(ret) /\ has_char(call.text, "_")) => ret.val.prefix # None
        /\ ~has_char(call.text, "_") =>
               LET d == Id_decode(call.t, call.text)
               IN  ret = IF is_ok(d) THEN Ok([prefix |-> None, suffix |-> d.val]) ELSE d
        /\ (delimited /\ call.t = "u16"
                /\ call.text = <<"m", "u", "l", "t", "i", "_", "p", "a", "r", "t",
                                 "_", "0", "0", "0", "0">>) =>
               ret = Ok([prefix |-> Some(<<"m", "u", "l", "t", "i", "_", "p", "a", "r", "t">>),
                         suffix |-> <<0, 0>>])

C9_Witness ==
    /\ delimited /\ call.op = "from_str" /\ call.t = "u16" /\ call.of = None
    /\ call.text = <<"m", "u", "l", "t", "i", "_", "p", "a", "r", "t", "_", "0", "0", "0", "0">>
    /\ is_ok(ret) /\ ret.val.prefix = Some(<<"m", "u", "l", "t", "i", "_", "p", "a", "r", "t">>)

\* C10: a dynamic parse of a text whose part left of the last underscore is
\* empty or all whitespace fails with MissingPrefix of that part, untrimmed,
\* whatever the suffix; no parse of a text with an underscore yields an
\* identifier with no prefix or an empty one.
C10_MissingPrefix ==
    (call.op = "from_str" /\ has_char(call.text, "_")) =>
        /\ (\A i \in 1..Len(left_of_last(call.text)) :
                is_whitespace(left_of_last(call.text)[i])) =>
               ret = Err(MissingPrefix(left_of_last(call.text)))
        /\ is_ok(ret) => (ret.val.prefix # None /\ ret.val.prefix # Some(<< >>))

C10_Witness ==
    /\ call.op = "from_str" /\ call.t = "u16"
    /\ call.text = <<" ", "_", "0", "0", "0", "0">>
    /\ ret = Err(MissingPrefix(<<" ">>))

\* C11: a generated type with a fixed prefix p answers MissingPrefix(p) to an
\* input that has no underscore or nothing left of its last underscore, also
\* when the input is a valid encoded suffix.
C11_GenMissingPrefix ==
    (call.op = "gen_from_str" /\ call.decl.literal # None
        /\ (~has_char(call.text, "_") \/ left_of_last(call.text) = << >>)) =>
        ret = Err(MissingPrefix(call.decl.literal[1]))

C11_Witness ==
    /\ call.op = "gen_from_str"
    /\ call.decl = [t |-> "u32", literal |-> Some(<<"p", "r", "e", "f", "i", "x">>)]
    /\ call.text = <<"0", "0", "0", "0", "0", "9", "d">>
    /\ Id_decode("u32", call.text) = Ok(number("u32", 301))
    /\ ret = Err(MissingPrefix(<<"p", "r", "e", "f", "i", "x">>))

\* C12: a generated type with a fixed prefix p answers InvalidPrefix(p, found)
\* to an input whose non-empty left part is not p, whatever the suffix is, and
\* only an input that carries p itself parses.
C12_GenInvalidPrefix ==
    (call.op = "gen_from_str" /\ call.decl.literal # None) =>
        /\ (has_char(call.text, "_") /\ left_of_last(call.text) # << >>
                /\ left_of_last(call.text) # call.decl.literal[1]) =>
               ret = Err(InvalidPrefix(call.decl.literal[1], left_of_last(call.text)))
        /\ is_ok(ret) =>
               (has_char(call.text, "_") /\ left_of_last(call.text) = call.decl.literal[1])

C12_Witness ==
    /\ call.op = "gen_from_str"
    /\ call.decl = [t |-> "u32", literal |-> Some(<<"p", "r", "e", "f", "i", "x">>)]
    /\ call.text = <<"d", "y", "n", "_", "z", "0", "0", "0", "0", "0", "0">>
    /\ ~is_ok(Id_decode("u32", <<"z", "0", "0", "0", "0", "0", "0">>))
    /\ ret = Err(InvalidPrefix(<<"p", "r", "e", "f", "i", "x">>, <<"d", "y", "n">>))

\* C13: a generated type declared without a prefix answers NoPrefixExpected(left
\* part) to every input that has an underscore, whatever the suffix is; only
\* inputs without underscore are decoded.
C13_GenNoPrefixExpected ==
    (call.op = "gen_from_str" /\ call.decl.literal = None) =>
        /\ has_char(call.text, "_") =>
               ret = Err(NoPrefixExpected(left_of_last(call.text)))
        /\ ~has_char(call.text, "_") =>
               LET d == Id_decode(call.decl.t, call.text)
               IN  ret = IF is_ok(d) THEN Ok([suffix |-> d.val]) ELSE d

C13_Witness ==
    /\ call.op = "gen_from_str" /\ call.decl = [t |-> "u16", literal |-> None]
    /\ call.text = <<"p", "r", "e", "f", "i", "x", "_", "0", "0", "9", "d">>
    /\ ret = Err(NoPrefixExpected(<<"p", "r", "e", "f", "i", "x">>))

\* the operations that hand a prefix to map_prefix, and the prefix they hand
validates_prefix ==
    \/ call.op \in {"new", "from_u128"}
    \/ call.op = "from_str" /\ has_char(call.text, "_")
           /\ trim(left_of_last(call.text)) # << >>

validated_prefix ==
    IF call.op = "from_str" THEN left_of_last(call.text) ELSE call.prefix

is_err_kind(r, kind) == ~is_ok(r) /\ r.err[1] = kind

\* C14: prefix validation answers PrefixTooLong(len) exactly when the prefix
\* has 64 bytes or more: 63 lowercase letters pass, 64 do not, and a prefix
\* that is too long is reported as such even if it has other defects.
C14_PrefixTooLong ==
    validates_prefix =>
        /\ Len(validated_prefix) >= 64 =>
               ret = Err(PrefixTooLong(Len(validated_prefix)))
        /\ Len(validated_prefix) < 64 => ~is_err_kind(ret, "PrefixTooLong")
        /\ (call.op = "new" /\ call.prefix = repeat("a", 63)) =>
               ret = Ok([prefix |-> Some(call.prefix), suffix |-> call.v])

C14_Witness ==
    /\ call.op = "new" /\ call.prefix = repeat("A", 64)
    /\ ret = Err(PrefixTooLong(64))

\* a character the documentation allows in a prefix
prefix_char_allowed(c) ==
    \/ c \in {"a", "b", "c", "d", "e", "f", "g", "h", "i", "j", "k", "l", "m",
              "n", "o", "p", "q", "r", "s", "t", "u", "v", "w", "x", "y", "z"}
    \/ delimited /\ c = "_"

first_not_allowed(prefix) ==
    prefix[CHOOSE i \in 1..Len(prefix) :
               /\ ~prefix_char_allowed(prefix[i])
               /\ \A j \in 1..(i - 1) : prefix_char_allowed(prefix[j])]

\* C15: for a prefix of fewer than 64 bytes, validation answers
\* IncorrectPrefixCharacter(c) exactly when some byte is not a lowercase ASCII
\* letter (nor, in delimited mode, an underscore), and c is the first such byte.
C15_IncorrectPrefixCharacter ==
    (validates_prefix /\ Len(validated_prefix) < 64) =>
        IF \E i \in 1..Len(validated_prefix) : ~prefix_char_allowed(validated_prefix[i])
            THEN ret = Err(IncorrectPrefixCharacter(first_not_allowed(validated_prefix)))
        ELSE ~is_err_kind(ret, "IncorrectPrefixCharacter")

C15_Witness ==
    /\ call.op = "new" /\ call.prefix = <<" ", "\t">>
    /\ ret = Err(IncorrectPrefixCharacter(" "))

\* C16: DynamicStrongId::new with an empty prefix is Err(PrefixExpected); it
\* builds neither an identifier with an empty prefix nor one without prefix.
C16_PrefixExpected ==
    (call.op \in {"new", "from_u128"} /\ call.prefix = << >>) =>
        ret = Err(PrefixExpected)

C16_Witness ==
    /\ call.op = "new" /\ call.t = "u16" /\ call.prefix = << >>
    /\ call.v = number("u16", 301)
    /\ ret = Err(PrefixExpected)

\* what the documentation allows as the prefix of a dynamic identifier
valid_dynamic_prefix(p) ==
    \/ p = None
    \/ /\ p # None
       /\ Len(p[1]) \in 1..63
       /\ \A i \in 1..Len(p[1]) : prefix_char_allowed(p[1][i])

\* C17: every dynamic identifier that new, new_plain, from_u128,
\* from_u128_plain or a successful parse returns, and every one that is
\* formatted, has no prefix or a prefix of 1 to 63 allowed characters.
C17_PrefixInvariant ==
    /\ (call.op \in {"new", "new_plain", "from_u128", "from_u128_plain", "from_str"}
            /\ is_ok(ret)) => valid_dynamic_prefix(ret.val.prefix)
    /\ call.op = "fmt" => valid_dynamic_prefix(call.id.prefix)

C17_Witness ==
    /\ call.op = "from_str" /\ call.of = None /\ delimited
    /\ has_char(call.text, "_")
    /\ left_of_last(call.text) = <<"m", "u", "l", "t", "i", "_", "p", "a", "r", "t">>
    /\ ret = Ok([prefix |-> Some(<<"m", "u", "l", "t", "i", "_", "p", "a", "r", "t">>),
                 suffix |-> number(call.t, 301)])

\* a string: a finite sequence of characters
is_text(s) == DOMAIN s = 1..Len(s) /\ \A i \in 1..Len(s) : as_byte(s[i]) \in 0..255

\* e is one variant of enum Error with the payload the variant declares
is_error(e) ==
    \/ e \in {Base32Error("InvalidByte"), Base32Error("InvalidFirstByte")}
    \/ e = PrefixExpected
    \/ e[1] \in {"MissingPrefix", "NoPrefixExpected"} /\ Len(e) = 2 /\ is_text(e[2])
    \/ e[1] = "InvalidPrefix" /\ Len(e) = 3 /\ is_text(e[2]) /\ is_text(e[3])
    \/ e[1] = "InvalidLength" /\ Len(e) = 3 /\ e[2] \in Nat /\ e[3] \in Nat
    \/ e[1] = "PrefixTooLong" /\ Len(e) = 2 /\ e[2] \in Nat
    \/ e[1] = "IncorrectPrefixCharacter" /\ Len(e) = 2 /\ as_byte(e[2]) \in 0..255

\* v is a whole value of type t, and text is what it encodes to
decodes_fully(t, v, text) ==
    /\ DOMAIN v = 1..size_of(t)
    /\ \A i \in 1..size_of(t) : v[i] \in 0..255
    /\ Id_encode(t, v) = text

\* r is Ok of a whole value that encodes to text, or Err of one Error
total_result(r, t, text, fields) ==
    \/ /\ r.tag = "Ok" /\ DOMAIN r = {"tag", "val"}
       /\ IF fields = {} THEN decodes_fully(t, r.val, text)
          ELSE DOMAIN r.val = fields /\ decodes_fully(t, r.val.suffix, text)
    \/ r.tag = "Err" /\ DOMAIN r = {"tag", "err"} /\ is_error(r.err)

\* the part of an input that a parse hands to Id::decode
suffix_text(text) ==
    IF has_char(text, "_") THEN rsplit_once(text, "_")[1][2] ELSE text

\* C18: for every input, Id::decode, the dynamic parse and the generated parse
\* return Ok or one error of enum Error, and an Ok result carries a whole
\* value of the suffix type that is the decoding of the whole suffix text.
C18_Total ==
    /\ call.op \in {"from_str", "gen_from_str"} =>
           total_result(Id_decode(IF call.op = "from_str" THEN call.t ELSE call.decl.t,
                                  call.text),
                        IF call.op = "from_str" THEN call.t ELSE call.decl.t,
                        call.text, {})
    /\ call.op = "from_str" =>
           total_result(ret, call.t, suffix_text(call.text), {"prefix", "suffix"})
    /\ call.op = "gen_from_str" =>
           total_result(ret, call.decl.t, suffix_text(call.text), {"suffix"})

C18_Witness ==
    /\ delimited
    /\ call.op = "from_str" /\ call.t = "u8"
    /\ call.text = <<"_", "_", "0", "l">>
    /\ ret = Err(Base32Error("InvalidByte"))

\* C19 as stated: a 16-bit suffix type parses "prefix_000009d" to the
\* identifier of prefix "prefix" and suffix 301.
C19_Parse16 ==
    (call.op = "from_str" /\ call.t = "u16"
        /\ call.text = <<"p", "r", "e", "f", "i", "x", "_", "0", "0", "0", "0", "0", "9", "d">>) =>
        ret = Ok([prefix |-> Some(<<"p", "r", "e", "f", "i", "x">>),
                  suffix |-> number("u16", 301)])

\* C19: a 32-bit suffix type parses "prefix_000009d" to the identifier of
\* prefix "prefix" and suffix 301, dynamic or generated, and that identifier
\* formats to "prefix_000009d"; a 16-bit suffix type, whose body has four
\* characters, answers InvalidLength(4, 7).
C19_Parse32 ==
    LET text == <<"p", "r", "e", "f", "i", "x", "_", "0", "0", "0", "0", "0", "9", "d">>
        prefix == <<"p", "r", "e", "f", "i", "x">>
        PrefixU32 == [t |-> "u32", literal |-> Some(prefix)]
    IN  /\ (call.op = "from_str" /\ call.t = "u32" /\ call.text = text) =>
               ret = Ok([prefix |-> Some(prefix), suffix |-> number("u32", 301)])
        /\ (call.op = "fmt" /\ call.t = "u32"
                /\ call.id = [prefix |-> Some(prefix), suffix |-> number("u32", 301)]) =>
               ret = text
        /\ (call.op = "gen_from_str" /\ call.decl = PrefixU32 /\ call.text = text) =>
               ret = Ok([suffix |-> number("u32", 301)])
        /\ (call.op = "gen_fmt" /\ call.decl = PrefixU32
                /\ call.id = [suffix |-> number("u32", 301)]) =>
               ret = text
        /\ (call.op = "from_str" /\ call.t = "u16" /\ call.text = text) =>
               ret = Err(InvalidLength(4, 7))

C19_Witness ==
    /\ call.op = "from_str" /\ call.t = "u32"
    /\ call.text = <<"p", "r", "e", "f", "i", "x", "_", "0", "0", "0", "0", "0", "9", "d">>
    /\ call.of = Some([prefix |-> Some(<<"p", "r", "e", "f", "i", "x">>),
                       suffix |-> number("u32", 301)])
    /\ ret = Ok(call.of[1])

\* C20 as stated: the body of a formatted usize identifier has 26 characters.
C20_Usize26 ==
    (call.op = "fmt" /\ call.t = "usize") => Len(suffix_text(ret)) = 26

\* C20: with usize eight bytes wide, the body of a formatted usize identifier
\* has 13 characters, and parsing requires a body of 13 characters: any other
\* length is answered with InvalidLength(13, length).
C20_Usize13 ==
    /\ (call.op = "fmt" /\ call.t = "usize") => Len(suffix_text(ret)) = 13
    /\ (call.op = "from_str" /\ call.t = "usize") =>
           /\ is_ok(ret) => Len(suffix_text(call.text)) = 13
           /\ (~has_char(call.text, "_") /\ Len(call.text) # 13) =>
                  ret = Err(InvalidLength(13, Len(call.text)))
           /\ (has_char(call.text, "_") /\ left_of_last(call.text) = <<"d", "y", "n">>
                   /\ Len(suffix_text(call.text)) # 13) =>
                  ret = Err(InvalidLength(13, Len(suffix_text(call.text))))

C20_Witness ==
    /\ call.op = "from_str" /\ call.t = "usize"
    /\ call.text = <<"d", "y", "n", "_">> \o repeat("0", 24) \o <<"9", "d">>
    /\ ret = Err(InvalidLength(13, 26))

\* C21: the string form is canonical.  An identifier that was parsed from s
\* formats to s; no other input parses to the same identifier (compared
\* pairwise for the one- and two-byte suffix types); and every string that
\* format produces from a constructed identifier is accepted by the parse of
\* its type.
C21_Canonical ==
    /\ (call.op \in {"fmt", "gen_fmt"} /\ call.from # None) => ret = call.from[1]
    /\ (call.op = "from_str" /\ call.of = None /\ is_ok(ret) /\ size_of(call.t) <= 2) =>
           \A s \in ParseTexts(call.t) :
               DynamicStrongId_from_str(call.t, s) = ret => s = call.text
    /\ (call.op = "gen_from_str" /\ call.of = None /\ is_ok(ret)
            /\ size_of(call.decl.t) <= 2) =>
           \A s \in ParseTexts(call.decl.t) :
               StrongId_from_str(call.decl, s) = ret => s = call.text
    /\ (call.op \in {"from_str", "gen_from_str"} /\ call.of # None) => is_ok(ret)

\* C21 with the last part left out for the generated types declared with an
\* empty prefix literal
C21_CanonicalDeclared ==
    /\ (call.op \in {"fmt", "gen_fmt"} /\ call.from # None) => ret = call.from[1]
    /\ (call.op = "from_str" /\ call.of = None /\ is_ok(ret) /\ size_of(call.t) <= 2) =>
           \A s \in ParseTexts(call.t) :
               DynamicStrongId_from_str(call.t, s) = ret => s = call.text
    /\ (call.op = "gen_from_str" /\ call.of = None /\ is_ok(ret)
            /\ size_of(call.decl.t) <= 2) =>
           \A s \in ParseTexts(call.decl.t) :
               StrongId_from_str(call.decl, s) = ret => s = call.text
    /\ (call.op \in {"from_str", "gen_from_str"} /\ call.of # None) =>
           \/ is_ok(ret)
           \/ call.op = "gen_from_str" /\ call.decl.literal = Some(<< >>)

\* a formatted identifier that had been parsed from "prefix_000009d"
C21_ParsedFormatted ==
    /\ call.op = "gen_fmt"
    /\ call.from = Some(<<"p", "r", "e", "f", "i", "x", "_", "0", "0", "0", "0", "0", "9", "d">>)
    /\ ret = call.from[1]

\* the declaration of the same suffix type without a prefix literal
without_literal(decl) == [t |-> decl.t, literal |-> None]

\* C22: a generated type declared with the empty prefix literal behaves like
\* the type declared without a literal: prefix() is None, format gives the
\* encoded suffix alone, and parse answers every input as that type does.
C22_EmptyLiteral ==
    (call.op \in {"gen_from", "gen_fmt", "gen_from_str"}
        /\ call.decl.literal = Some(<< >>)) =>
        /\ StrongId_prefix(call.decl) = None
        /\ call.op = "gen_fmt" => ret = Id_encode(call.decl.t, call.id.suffix)
        /\ call.op = "gen_from_str" =>
               ret = StrongId_from_str(without_literal(call.decl), call.text)

\* C22 without its statement about parse
C22_EmptyLiteralFormat ==
    (call.op \in {"gen_from", "gen_fmt", "gen_from_str"}
        /\ call.decl.literal = Some(<< >>)) =>
        /\ StrongId_prefix(call.decl) = None
        /\ call.op = "gen_fmt" => ret = Id_encode(call.decl.t, call.id.suffix)
        /\ call.op = "gen_fmt" =>
               ret = StrongId_fmt(without_literal(call.decl), call.id)
        /\ call.op = "gen_from_str" => ~is_ok(ret)

\* C23: the generated and the dynamic parse agree.  A generated type with a
\* non-empty prefix p parses an input to suffix v exactly when the dynamic
\* parse of the same suffix type gives prefix Some(p) and suffix v; a generated
\* type declared without prefix does so exactly when the dynamic parse gives
\* prefix None and suffix v.
C23_VariantsAgree ==
    /\ (call.op = "gen_from_str" /\ call.decl.literal # Some(<< >>)) =>
           LET d == DynamicStrongId_from_str(call.decl.t, call.text)
           IN  /\ is_ok(ret) <=> (is_ok(d) /\ d.val.prefix = call.decl.literal)
               /\ is_ok(ret) => ret.val.suffix = d.val.suffix
    /\ (call.op = "from_str" /\ is_ok(ret)) =>
           \A decl \in Decls :
               (decl.t = call.t /\ decl.literal = ret.val.prefix) =>
                   StrongId_from_str(decl, call.text) = Ok([suffix |-> ret.val.suffix])

C23_Witness ==
    /\ call.op = "gen_from_str"
    /\ call.decl = [t |-> "u16", literal |-> Some(<<"p", "r", "e", "f", "i", "x">>)]
    /\ call.text = <<"p", "r", "e", "f", "i", "x", "_", "0", "0", "9", "d">>
    /\ ret = Ok([suffix |-> number("u16", 301)])
    /\ DynamicStrongId_from_str("u16", call.text)
           = Ok([prefix |-> call.decl.literal, suffix |-> number("u16", 301)])

====
